---- MODULE Spec2Model ----
(***************************************************************************)
(* Model of src/data/generate_sample_data.py: EcommerceDataGenerator.       *)
(*                                                                          *)
(* Units.  Money is an integer number of cents (every price, cost and      *)
(* total is round(x, 2)).  discount_pct and missing_rate are integer       *)
(* percents.  registration_date is a day number counted from 2022-01-01,   *)
(* transaction_date a minute number counted from 2022-01-01 00:00.         *)
(*                                                                          *)
(* A DataFrame is a record [cols, rows]: the column names in order and the *)
(* rows, each row a record over the columns.  A cell is <<v>> when it      *)
(* holds the value v and <<>> when it is missing (NaN / NaT).              *)
(*                                                                          *)
(* DataFrames are objects: heap is the sequence of the objects allocated   *)
(* so far and customers, products, transactions, transactions_raw are      *)
(* references into it (0 = not bound yet).                                 *)
(*                                                                          *)
(* A random draw is a nondeterministic choice.  A draw over a numeric      *)
(* range is explored at g sample points of the range (see Draws).          *)
(***************************************************************************)
EXTENDS Integers, Sequences, FiniteSets, TLC

VARIABLES pc, n_customers, n_products, n_transactions, missing_rate,
          heap, made, customers, products, transactions, transactions_raw,
          dirs, files

vars == <<pc, n_customers, n_products, n_transactions, missing_rate,
          heap, made, customers, products, transactions, transactions_raw,
          dirs, files>>

-----------------------------------------------------------------------------
(* Bounds of the exploration *)

\* largest count handed to a generator called on its own
MaxCount == 2
\* sample points explored in a numeric range by a generator called on its own
Samples == 2
\* largest number of cells the injector blanks when 0 < missing_rate < 1
MaxMissing == 2
\* the cells it blanks then lie in the first MaskRows rows
MaskRows == 3
\* largest small table handed to the injector
SmallRows == 2
\* largest table handed to the injector
BigRows == 100
\* largest count handed to generate_transactions called on its own
MaxTransactions == 2
\* largest customer and product tables handed to generate_transactions
MaxInputRows == 2
\* largest product of the count and the sizes of the two tables handed to it
MaxWork == 4

-----------------------------------------------------------------------------
(* Cells and identifiers *)

Cell(v) == <<v>>

NaN == <<>>

IsNa(c) == c = NaN

Val(c) == c[1]

RECURSIVE Digits(_)
\* the decimal digits of i >= 0, most significant first (format code "d")
Digits(i) == IF i < 10 THEN <<i>> ELSE Append(Digits(i \div 10), i % 10)

RECURSIVE ZeroPad(_, _)
\* zero fill on the left up to width w, never truncating (format code "0wd")
ZeroPad(ds, w) == IF Len(ds) >= w THEN ds ELSE ZeroPad(<<0>> \o ds, w)

\* a bug: the index is not zero filled
CustomerIdUnpadded(i) == <<"CUST_">> \o Digits(i)

CustomerId(i) == <<"CUST_">> \o ZeroPad(Digits(i), 5)

ProductId(i) == <<"PROD_">> \o ZeroPad(Digits(i), 5)

\* a bug: the index is zero filled to 5 digits as in the other two tokens
TransactionIdOn5(i) == <<"TXN_">> \o ZeroPad(Digits(i), 5)

TransactionId(i) == <<"TXN_">> \o ZeroPad(Digits(i), 6)

-----------------------------------------------------------------------------
(* The random source *)

\* the outcomes explored for a draw over the integer range a..b: the lower
\* end, then the upper end, then the points next above the lower end
Draws(a, b, g) ==
    {a} \cup (IF g >= 2 THEN {b} ELSE {})
        \cup {x \in {a + k : k \in 1..(g - 2)} : x <= b}

\* random.random() and np.random.random(): a value of [0, 1), in percents
RandomUnit == 0..99

\* random.randint(a, b): an integer of a..b, both ends included
RandInt(a, b, g) == Draws(a, b, g)

\* round(random.uniform(a, b), 2) in hundredths: a value of a..b
Uniform2(a, b, g) == Draws(a, b, g)

-----------------------------------------------------------------------------
(* __init__ *)

categories == <<"Electronics", "Clothing", "Home & Garden", "Sports",
                "Books", "Beauty", "Toys", "Food & Beverage">>

\* price_ranges, in whole currency units
price_ranges ==
    [c \in {categories[k] : k \in 1..Len(categories)} |->
        CASE c = "Electronics"     -> <<50, 2000>>
          [] c = "Clothing"        -> <<15, 200>>
          [] c = "Home & Garden"   -> <<20, 500>>
          [] c = "Sports"          -> <<25, 400>>
          [] c = "Books"           -> <<10, 50>>
          [] c = "Beauty"          -> <<15, 150>>
          [] c = "Toys"            -> <<10, 100>>
          [] c = "Food & Beverage" -> <<5, 80>>]

-----------------------------------------------------------------------------
(* generate_customers *)

countries == <<"USA", "UK", "Germany", "France", "Canada", "Australia">>

customer_segments == <<"New", "Regular", "VIP">>

CustomerCols == <<"customer_id", "registration_date", "country", "segment">>

\* datetime(2022, 1, 1), in days from 2022-01-01
registration_start == 0

\* the upper end of random.randint(0, 700)
MaxRegistrationDays == 700

\* np.random.choice(a, n): n independent picks among the elements of a
Choice(a, n) == [1..n -> {a[k] : k \in 1..Len(a)}]

\* the tables generate_customers can return for n >= 0
generate_customers(n, g) ==
    {[cols |-> CustomerCols,
      rows |-> [i \in 1..n |->
                  [customer_id       |-> Cell(CustomerId(i - 1)),
                   registration_date |-> Cell(registration_start + d[i]),
                   country           |-> Cell(c[i]),
                   segment           |-> Cell(s[i])]]] :
        d \in [1..n -> RandInt(0, MaxRegistrationDays, g)],
        c \in Choice(countries, n),
        s \in Choice(customer_segments, n)}

-----------------------------------------------------------------------------
(* generate_products *)

ProductCols == <<"product_id", "product_name", "category", "price", "cost">>

\* a bug: the price is drawn from zero up to the maximum
PriceDrawsFromZero(c, g) == Uniform2(0, price_ranges[c][2] * 100, g)

\* the price drawn for a category, in cents
PriceDraws(c, g) ==
    Uniform2(price_ranges[c][1] * 100, price_ranges[c][2] * 100, g)

\* a bug: the upper end of the cost is taken from the maximum price
CostDrawsToMax(c, g) ==
    Uniform2(price_ranges[c][1] * 40, price_ranges[c][2] * 70, g)

\* the cost drawn for a category, in cents: uniform over 0.4*min .. 0.7*min
CostDraws(c, g) ==
    Uniform2(price_ranges[c][1] * 40, price_ranges[c][1] * 70, g)

Categories == {categories[j] : j \in 1..Len(categories)}

\* the records the loop body can append for index i
ProductRecords(i, g) ==
    UNION {{[product_id   |-> Cell(ProductId(i)),
             product_name |-> Cell(<<c, " Product ">> \o Digits(i)),
             category     |-> Cell(c),
             price        |-> Cell(p),
             cost         |-> Cell(k)] :
                p \in PriceDraws(c, g), k \in CostDraws(c, g)} : c \in Categories}

RECURSIVE ProductLists(_, _)
\* the lists the loop over range(n) can build
ProductLists(n, g) ==
    IF n <= 0 THEN {<<>>}
    ELSE {Append(l, r) : l \in ProductLists(n - 1, g), r \in ProductRecords(n - 1, g)}

\* pd.DataFrame(products): a list of no records gives a frame with no columns
DataFrame(cols, l) == [cols |-> IF l = <<>> THEN <<>> ELSE cols, rows |-> l]

\* the tables generate_products can return
generate_products(n, g) == {DataFrame(ProductCols, l) : l \in ProductLists(n, g)}

-----------------------------------------------------------------------------
(* generate_transactions *)

TransactionCols == <<"transaction_id", "customer_id", "product_id", "transaction_date",
                     "quantity", "unit_price", "discount_pct", "total_amount">>

\* datetime(2023, 1, 1), in minutes from 2022-01-01 00:00
start_date == 365 * 1440

\* (end_date - start_date).days for end_date = datetime(2024, 12, 31)
WindowDays == 730

\* start_date + timedelta(days, hours, minutes): the three draws reach every
\* minute of the window exactly once, so the date is one draw over the minutes
DateDraws(g) ==
    {start_date + m : m \in RandInt(0, WindowDays * 1440 + 23 * 60 + 59, g)}

\* np.random.choice([1, 2, 3, 4, 5], p=...): every weight is positive
QuantityDraws == 1..5

\* 0 if random.random() > 0.2 else round(random.uniform(0.05, 0.3), 2)
DiscountDraws(g) ==
    {IF u > 20 THEN 0 ELSE d : u \in RandomUnit, d \in Uniform2(5, 30, g)}

\* round(x, 2) for x given in hundredths of a cent.  x is computed in binary
\* floating point: off a half cent the nearest cent is returned, on an exact
\* half cent the double lies on either side of the decimal value and either
\* neighbour is returned (50.10 * 1 at 5% gives 47.59, 50.10 * 3 at 5% gives 142.79)
Round2(x) ==
    IF x % 100 = 50 THEN {x \div 100, x \div 100 + 1}
    ELSE IF x % 100 < 50 THEN {x \div 100}
    ELSE {x \div 100 + 1}

\* a bug: the subtotal leaves the quantity out
TotalAmountsOfOne(price, quantity, discount) ==
    Round2(price * 100 - price * discount)

\* round(subtotal - discount_amount, 2) in cents, for a price in cents
TotalAmounts(price, quantity, discount) ==
    LET subtotal        == price * quantity
        discount_amount == subtotal * discount
    IN  Round2(subtotal * 100 - discount_amount)

\* the records the loop body can append for index i
TransactionRecords(i, crows, prows, g) ==
    UNION {{[transaction_id   |-> Cell(TransactionId(i)),
             customer_id      |-> crows[c].customer_id,
             product_id       |-> prows[p].product_id,
             transaction_date |-> Cell(t),
             quantity         |-> Cell(q),
             unit_price       |-> prows[p].price,
             discount_pct     |-> Cell(d),
             total_amount     |-> Cell(a)] :
                a \in TotalAmounts(Val(prows[p].price), q, d),
                c \in 1..Len(crows), t \in DateDraws(g)} :
           p \in 1..Len(prows), q \in QuantityDraws, d \in DiscountDraws(g)}

RECURSIVE TransactionLists(_, _, _, _)
\* the lists the loop over range(n) can build
TransactionLists(n, crows, prows, g) ==
    IF n <= 0 THEN {<<>>}
    ELSE {Append(l, r) : l \in TransactionLists(n - 1, crows, prows, g),
                         r \in TransactionRecords(n - 1, crows, prows, g)}

\* np.random.choice over no customer and products.sample(1) over no product
\* raise ValueError in the first iteration of the loop
TransactionsRaise(n, c, p) == n >= 1 /\ (Len(c.rows) = 0 \/ Len(p.rows) = 0)

\* the tables generate_transactions can return when it does not raise
generate_transactions(n, c, p, g) ==
    {DataFrame(TransactionCols, l) : l \in TransactionLists(n, c.rows, p.rows, g)}

-----------------------------------------------------------------------------
(* add_data_quality_issues *)

\* a bug: customer_id is left out of the list
ProtectedColsShort == {"transaction_id", "product_id"}

\* the columns the injector never blanks
ProtectedCols == {"transaction_id", "customer_id", "product_id"}

\* the duplicate rate, in percents
DuplicatePct == 1

Columns(t) == {t.cols[k] : k \in 1..Len(t.cols)}

\* the cells the loop over the columns visits
OpenCells(t) ==
    {<<i, col>> : i \in 1..Len(t.rows), col \in Columns(t) \ ProtectedCols}

RECURSIVE SubsetsUpTo(_, _)
\* the subsets of S of at most k elements
SubsetsUpTo(S, k) ==
    IF k <= 0 THEN {{}}
    ELSE LET r == SubsetsUpTo(S, k - 1)
         IN  r \cup {m \cup {c} : m \in r, c \in S}

\* mask = np.random.random(len(df_copy)) < missing_rate, over all the visited
\* columns: the sets of cells the masks can select
Masks(t, rate) ==
    LET hit == {u < rate : u \in RandomUnit}
    IN  IF TRUE \notin hit THEN {{}}
        ELSE IF FALSE \notin hit THEN {OpenCells(t)}
        ELSE SubsetsUpTo({c \in OpenCells(t) : c[1] <= MaskRows}, MaxMissing)

\* df_copy.loc[mask, col] = np.nan for every visited column
SetNaN(t, m) ==
    [t EXCEPT !.rows =
        [i \in 1..Len(t.rows) |->
            [col \in DOMAIN t.rows[i] |->
                IF <<i, col>> \in m THEN NaN ELSE t.rows[i][col]]]]

\* a bug: round() in place of int()
n_duplicates_rounded(len) == (len * DuplicatePct + 50) \div 100

\* int(len(df_copy) * 0.01)
n_duplicates(len) == (len * DuplicatePct) \div 100

RECURSIVE Samplings(_, _)
\* df_copy.sample(n): n distinct row positions of 1..len, in any order
Samplings(len, n) ==
    IF n <= 0 THEN {<<>>}
    ELSE UNION {{Append(s, i) : i \in {j \in 1..len : \A k \in 1..Len(s) : s[k] # j}} :
                s \in Samplings(len, n - 1)}

\* pd.concat([df_copy, duplicates], ignore_index=True): a new frame
Concat(t, dup) == [cols |-> t.cols, rows |-> t.rows \o dup]

\* a bug: df_copy = df, the same object under a second name
df_alias(h, df) == [heap |-> h, ref |-> df]

\* df.copy(): a new object holding the same table
df_copy(h, df) == [heap |-> Append(h, h[df]), ref |-> Len(h) + 1]

\* the heap after add_data_quality_issues(df) blanked the cells m and sampled
\* the rows s; the frame returned is the last object of the heap
add_data_quality_issues(h, df, m, s) ==
    LET c   == df_copy(h, df)
        h2  == [c.heap EXCEPT ![c.ref] = SetNaN(c.heap[c.ref], m)]
        dup == [k \in 1..Len(s) |-> h2[c.ref].rows[s[k]]]
    IN  Append(h2, Concat(h2[c.ref], dup))

\* the function each object of the heap comes from, after the injector ran
MadeAfter(mk, h, df) ==
    [k \in 1..Len(h) |->
        IF k <= Len(mk) THEN mk[k]
        ELSE IF k = Len(h) THEN [by |-> "add_data_quality_issues", arg |-> df]
        ELSE [by |-> "copy", arg |-> df]]

-----------------------------------------------------------------------------
(* to_csv and the file system *)

output_dir == "data/raw"

clean_dir == "data/processed"

\* df.to_csv(path, index=False): the header line, then one line per row; a
\* missing cell is written as an empty field
to_csv(t) == [header |-> t.cols, lines |-> t.rows]

\* the files after the object ref of the heap h was written to path
Write(fs, path, ref, h) ==
    [p \in DOMAIN fs \cup {path} |->
        IF p = path THEN [from |-> ref, text |-> to_csv(h[ref])] ELSE fs[p]]

\* the frame generate_all writes to each file of the clean directory
CleanFrames(c, p, t) ==
    [customers |-> c, products |-> p, transactions |-> t]

\* a bug: the clean transactions are written to the raw directory
RawFramesClean(c, p, t, traw) ==
    [customers |-> c, products |-> p, transactions |-> t]

\* the frame generate_all writes to each file of the raw directory
RawFrames(c, p, t, traw) ==
    [customers |-> c, products |-> p, transactions |-> traw]

-----------------------------------------------------------------------------
(* The methods as steps: from and to are the positions before and after    *)
(* the call, g the sample points of its numeric draws                      *)

Customers(from, to, g) ==
    /\ pc = from
    /\ IF n_customers < 0
       THEN \* np.random.choice(countries, n) raises ValueError for n < 0
            /\ pc' = "raised"
            /\ UNCHANGED <<heap, made, customers>>
       ELSE \E t \in generate_customers(n_customers, g) :
            /\ heap' = Append(heap, t)
            /\ made' = Append(made, [by |-> "generate_customers", arg |-> 0])
            /\ customers' = Len(heap) + 1
            /\ pc' = to
    /\ UNCHANGED <<n_customers, n_products, n_transactions, missing_rate,
                   products, transactions, transactions_raw, dirs, files>>

Products(from, to, g) ==
    /\ pc = from
    /\ \E t \in generate_products(n_products, g) :
            /\ heap' = Append(heap, t)
            /\ made' = Append(made, [by |-> "generate_products", arg |-> 0])
            /\ products' = Len(heap) + 1
            /\ pc' = to
    /\ UNCHANGED <<n_customers, n_products, n_transactions, missing_rate,
                   customers, transactions, transactions_raw, dirs, files>>

Transactions(from, to, g) ==
    /\ pc = from
    /\ IF TransactionsRaise(n_transactions, heap[customers], heap[products])
       THEN /\ pc' = "raised"
            /\ UNCHANGED <<heap, made, transactions>>
       ELSE \E t \in generate_transactions(n_transactions, heap[customers],
                                           heap[products], g) :
            /\ heap' = Append(heap, t)
            /\ made' = Append(made, [by |-> "generate_transactions", arg |-> 0])
            /\ transactions' = Len(heap) + 1
            /\ pc' = to
    /\ UNCHANGED <<n_customers, n_products, n_transactions, missing_rate,
                   customers, products, transactions_raw, dirs, files>>

\* transactions_raw = self.add_data_quality_issues(transactions, missing_rate)
Inject(from, to) ==
    /\ pc = from
    /\ \E m \in Masks(heap[transactions], missing_rate) :
       \E s \in Samplings(Len(heap[transactions].rows),
                          n_duplicates(Len(heap[transactions].rows))) :
            /\ heap' = add_data_quality_issues(heap, transactions, m, s)
            /\ made' = MadeAfter(made, heap', transactions)
            /\ transactions_raw' = Len(heap')
            /\ pc' = to
    /\ UNCHANGED <<n_customers, n_products, n_transactions, missing_rate,
                   customers, products, transactions, dirs, files>>

-----------------------------------------------------------------------------
(* generate_all *)

FileName(dir, name) == <<dir, name>>

\* os.makedirs(output_dir, exist_ok=True); os.makedirs(clean_dir, exist_ok=True)
MakeDirs ==
    /\ pc = "makedirs"
    /\ dirs' = dirs \cup {output_dir, clean_dir}
    /\ pc' = "customers"
    /\ UNCHANGED <<n_customers, n_products, n_transactions, missing_rate, heap, made,
                   customers, products, transactions, transactions_raw, files>>

RunCustomers == Customers("customers", "products", 1)

RunProducts == Products("products", "transactions", 1)

RunTransactions == Transactions("transactions", "save_clean", 1)

SaveClean ==
    /\ pc = "save_clean"
    /\ LET f  == CleanFrames(customers, products, transactions)
           f1 == Write(files, FileName(clean_dir, "customers.csv"), f.customers, heap)
           f2 == Write(f1, FileName(clean_dir, "products.csv"), f.products, heap)
       IN  files' = Write(f2, FileName(clean_dir, "transactions.csv"), f.transactions, heap)
    /\ pc' = "inject"
    /\ UNCHANGED <<n_customers, n_products, n_transactions, missing_rate, heap, made,
                   customers, products, transactions, transactions_raw, dirs>>

RunInject == Inject("inject", "save_raw")

SaveRaw ==
    /\ pc = "save_raw"
    /\ LET f  == RawFrames(customers, products, transactions, transactions_raw)
           f1 == Write(files, FileName(output_dir, "customers_raw.csv"), f.customers, heap)
           f2 == Write(f1, FileName(output_dir, "products_raw.csv"), f.products, heap)
       IN  files' = Write(f2, FileName(output_dir, "transactions_raw.csv"),
                          f.transactions, heap)
    /\ pc' = "done"
    /\ UNCHANGED <<n_customers, n_products, n_transactions, missing_rate, heap, made,
                   customers, products, transactions, transactions_raw, dirs>>

\* the counts a run is configured with
RunCounts == {-1, 0, 1}

\* the default of the parameter missing_rate, in percents
DefaultMissingRate == 2

NoFiles == [p \in {} |-> 0]

\* a generator constructed with any three counts, before generate_all
Init ==
    /\ pc = "makedirs"
    /\ n_customers \in RunCounts
    /\ n_products \in RunCounts
    /\ n_transactions \in RunCounts
    /\ missing_rate = DefaultMissingRate
    /\ heap = <<>>
    /\ made = <<>>
    /\ customers = 0
    /\ products = 0
    /\ transactions = 0
    /\ transactions_raw = 0
    /\ dirs = {}
    /\ files = NoFiles

Next ==
    \/ MakeDirs
    \/ RunCustomers
    \/ RunProducts
    \/ RunTransactions
    \/ SaveClean
    \/ RunInject
    \/ SaveRaw

Spec == Init /\ [][Next]_vars

-----------------------------------------------------------------------------
(* The methods called on their own *)

\* what no call on its own touches
Idle ==
    /\ missing_rate = DefaultMissingRate
    /\ transactions_raw = 0
    /\ dirs = {}
    /\ files = NoFiles

InitCustomers ==
    /\ pc = "call_customers"
    /\ n_customers \in -1..MaxCount
    /\ n_products = 0
    /\ n_transactions = 0
    /\ heap = <<>>
    /\ made = <<>>
    /\ customers = 0
    /\ products = 0
    /\ transactions = 0
    /\ Idle

CallCustomers == Customers("call_customers", "returned", Samples)

SpecCustomers == InitCustomers /\ [][CallCustomers]_vars

InitProducts ==
    /\ pc = "call_products"
    /\ n_customers = 0
    /\ n_products \in -1..MaxCount
    /\ n_transactions = 0
    /\ heap = <<>>
    /\ made = <<>>
    /\ customers = 0
    /\ products = 0
    /\ transactions = 0
    /\ Idle

CallProducts == Products("call_products", "returned", Samples)

SpecProducts == InitProducts /\ [][CallProducts]_vars

\* the customer tables handed to generate_transactions and to the injector:
\* the tables of generate_customers with every date, country and segment the
\* first of its draws
InputCustomers(n) ==
    {t \in generate_customers(n, 1) :
        \A i \in 1..n : /\ t.rows[i].country = Cell(countries[1])
                        /\ t.rows[i].segment = Cell(customer_segments[1])}

\* the price of product number n of a catalog handed on: 10 cents above the
\* lower end of its range for the first, 4 cents above for the second, the
\* lower end for the others
InputPrice(n, lowest) ==
    IF n = 1 THEN lowest + 10 ELSE IF n = 2 THEN lowest + 4 ELSE lowest

RECURSIVE InputProductLists(_)
\* lists of generate_products: product number n of category number n, at the
\* price above and the lowest cost
InputProductLists(n) ==
    IF n <= 0 THEN {<<>>}
    ELSE {Append(l, r) :
            l \in InputProductLists(n - 1),
            r \in {x \in ProductRecords(n - 1, 12) :
                    LET c == categories[((n - 1) % Len(categories)) + 1]
                    IN  /\ x.category = Cell(c)
                        /\ x.price = Cell(InputPrice(n, price_ranges[c][1] * 100))
                        /\ x.cost = Cell(price_ranges[c][1] * 40)}}

InputProducts(n) == {DataFrame(ProductCols, l) : l \in InputProductLists(n)}

InitTransactions ==
    /\ pc = "call_transactions"
    /\ n_customers \in 0..MaxInputRows
    /\ n_products \in 0..MaxInputRows
    /\ n_transactions \in -1..MaxTransactions
    /\ n_transactions * n_customers * n_products <= MaxWork
    /\ \E c \in InputCustomers(n_customers), p \in InputProducts(n_products) :
            heap = <<c, p>>
    /\ made = <<[by |-> "generate_customers", arg |-> 0],
                [by |-> "generate_products", arg |-> 0]>>
    /\ customers = 1
    /\ products = 2
    /\ transactions = 0
    /\ Idle

CallTransactions == Transactions("call_transactions", "returned", Samples)

SpecTransactions == InitTransactions /\ [][CallTransactions]_vars

RECURSIVE InputTransactionLists(_)
\* lists of generate_transactions over one customer and one product: every
\* record of quantity 1 with no discount
InputTransactionLists(n) ==
    IF n <= 0 THEN {<<>>}
    ELSE {Append(l, r) :
            l \in InputTransactionLists(n - 1),
            r \in {x \in UNION {TransactionRecords(n - 1, c.rows, p.rows, 1) :
                                   c \in InputCustomers(1), p \in InputProducts(1)} :
                    x.quantity = Cell(1) /\ x.discount_pct = Cell(0)}}

InputTransactions(n) == {DataFrame(TransactionCols, l) : l \in InputTransactionLists(n)}

\* the row count from which the injector appends a duplicate
FirstDuplicate == 100 \div DuplicatePct

\* a frame of two columns of the customer table, of n rows
BigTable(n) ==
    [cols |-> <<"customer_id", "segment">>,
     rows |-> [i \in 1..n |->
                 [customer_id |-> Cell(CustomerId(i - 1)),
                  segment     |-> Cell(customer_segments[(i % Len(customer_segments)) + 1])]]]

\* the tables handed to the injector called on its own
InjectInputs ==
    UNION {InputCustomers(n) \cup InputProducts(n) \cup InputTransactions(n) :
              n \in 0..SmallRows}
      \cup {BigTable(n) : n \in (FirstDuplicate - 1)..BigRows}

\* the missing rates handed to the injector called on its own, in percents
MissingRates == {0, DefaultMissingRate, 100}

InitInject ==
    /\ pc = "call_inject"
    /\ n_customers = 0
    /\ n_products = 0
    /\ n_transactions = 0
    /\ missing_rate \in MissingRates
    /\ \E t \in InjectInputs : heap = <<t>>
    /\ made = <<[by |-> "caller", arg |-> 0]>>
    /\ customers = 0
    /\ products = 0
    /\ transactions = 1
    /\ transactions_raw = 0
    /\ dirs = {}
    /\ files = NoFiles

CallInject == Inject("call_inject", "returned")

SpecInject == InitInject /\ [][CallInject]_vars

\* the injector called on its own or by generate_all
InitFrames == InitInject \/ Init

NextFrames == CallInject \/ Next

SpecFrames == InitFrames /\ [][NextFrames]_vars

-----------------------------------------------------------------------------
(* Properties *)

RECURSIVE DecimalValue(_)
\* the number a sequence of decimal digits writes
DecimalValue(ds) ==
    IF ds = <<>> THEN 0
    ELSE DecimalValue(SubSeq(ds, 1, Len(ds) - 1)) * 10 + ds[Len(ds)]

\* id is the token prefix followed by the number i written on exactly w digits
IsToken(id, prefix, i, w) ==
    /\ Len(id) = w + 1
    /\ id[1] = prefix
    /\ \A k \in 2..(w + 1) : id[k] \in 0..9
    /\ DecimalValue(Tail(id)) = i

\* the cells of column col are pairwise different
Distinct(rows, col) ==
    \A i, j \in 1..Len(rows) : rows[i][col] = rows[j][col] => i = j

\* C9: for N >= 1 generate_customers returns exactly N records, the i-th
\* (0-based) carrying the token CUST_ followed by i on 5 digits, the N tokens
\* distinct, with a country of the 6 listed, a segment among New, Regular and
\* VIP and a registration date from the start date to 700 days after it
C9_Customers ==
    (pc = "returned" /\ n_customers >= 1) =>
        LET rows == heap[customers].rows
        IN  /\ Len(rows) = n_customers
            /\ Distinct(rows, "customer_id")
            /\ \A i \in 1..Len(rows) :
                /\ IsToken(Val(rows[i].customer_id), "CUST_", i - 1, 5)
                /\ Val(rows[i].country) \in
                      {"USA", "UK", "Germany", "France", "Canada", "Australia"}
                /\ Val(rows[i].segment) \in {"New", "Regular", "VIP"}
                /\ Val(rows[i].registration_date) >= registration_start
                /\ Val(rows[i].registration_date) <= registration_start + 700

\* two customers were returned, one registered on the last day of the window
C9_Witness ==
    /\ pc = "returned"
    /\ n_customers = 2
    /\ \E i \in 1..2 :
          Val(heap[customers].rows[i].registration_date) = registration_start + 700

\* C8: for M >= 1 every product has one of the 8 categories, a price within
\* the range of its category, a cost within 0.4 to 0.7 times the minimum price
\* of its category, and the M tokens are the distinct PROD_00000 .. PROD_{M-1}
C8_Products ==
    (pc = "returned" /\ n_products >= 1) =>
        LET rows == heap[products].rows
        IN  /\ Len(rows) = n_products
            /\ Distinct(rows, "product_id")
            /\ \A i \in 1..Len(rows) :
                /\ IsToken(Val(rows[i].product_id), "PROD_", i - 1, 5)
                /\ Val(rows[i].category) \in DOMAIN price_ranges
                /\ Cardinality(DOMAIN price_ranges) = 8
                /\ LET r == price_ranges[Val(rows[i].category)]
                   IN  /\ Val(rows[i].price) >= r[1] * 100
                       /\ Val(rows[i].price) <= r[2] * 100
                       /\ Val(rows[i].cost) * 10 >= 4 * r[1] * 100
                       /\ Val(rows[i].cost) * 10 <= 7 * r[1] * 100

\* two products were returned, one at the top of its price range and one at
\* the top of its cost range
C8_Witness ==
    /\ pc = "returned"
    /\ n_products = 2
    /\ \E i, j \in 1..2 :
          LET rows == heap[products].rows
          IN  /\ Val(rows[i].price) = price_ranges[Val(rows[i].category)][2] * 100
              /\ Val(rows[j].cost) = price_ranges[Val(rows[j].category)][1] * 70

\* some product of the frame costs more than its price
CostAbovePrice(t) ==
    \E i \in 1..Len(t.rows) : Val(t.rows[i].cost) > Val(t.rows[i].price)

\* C10 as stated: whenever generate_products is called for M >= 1 it can
\* return a catalog in which some product has cost > price
C10_Original ==
    (pc = "call_products" /\ n_products >= 1) =>
        ENABLED (CallProducts /\ CostAbovePrice(heap'[products']))

\* C10 amended: every product generate_products returns has cost < price; the
\* cost range of every category ends below the start of its price range
C10_CostBelowPrice ==
    /\ \A c \in DOMAIN price_ranges : price_ranges[c][1] * 70 < price_ranges[c][1] * 100
    /\ pc = "returned" =>
          \A i \in 1..Len(heap[products].rows) :
              Val(heap[products].rows[i].cost) < Val(heap[products].rows[i].price)

\* a product was returned at the highest cost and the lowest price of its category
C10_Witness ==
    /\ pc = "returned"
    /\ \E i \in 1..Len(heap[products].rows) :
          LET x == heap[products].rows[i]
          IN  /\ Val(x.cost) = price_ranges[Val(x.category)][1] * 70
              /\ Val(x.price) = price_ranges[Val(x.category)][1] * 100

-----------------------------------------------------------------------------
(* The injector *)

IdCols == {"transaction_id", "customer_id", "product_id"}

\* row out is row in with some cells blanked
Blanked(in, out) ==
    /\ DOMAIN out = DOMAIN in
    /\ \A col \in DOMAIN in : out[col] = in[col] \/ IsNa(out[col])

\* C1: for a table of N rows the injector returns N + floor(0.01 * N) rows:
\* first the N input rows in their order, each with some cells blanked, then
\* floor(0.01 * N) rows each an exact copy of one of the first N; for N < 100
\* the output has N rows
C1_RowCount ==
    pc = "returned" =>
        LET in  == heap[transactions].rows
            out == heap[transactions_raw].rows
            N   == Len(in)
        IN  /\ Len(out) = N + (N \div 100)
            /\ N < 100 => Len(out) = N
            /\ \A i \in 1..N : Blanked(in[i], out[i])
            /\ \A j \in (N + 1)..Len(out) : \E i \in 1..N : out[j] = out[i]

\* a table of 100 rows came back with 101 rows, the last a copy of a row in
\* which a cell was blanked
C1_Witness ==
    /\ pc = "returned"
    /\ Len(heap[transactions].rows) = 100
    /\ Len(heap[transactions_raw].rows) = 101
    /\ \E col \in DOMAIN heap[transactions_raw].rows[101] :
          /\ IsNa(heap[transactions_raw].rows[101][col])
          /\ \A i \in 1..100 : ~IsNa(heap[transactions].rows[i][col])

\* a step of the injector leaves the frame it was handed as it was
InputKeptStep ==
    pc \in {"call_inject", "inject"} =>
        (/\ transactions' = transactions
         /\ heap'[transactions] = heap[transactions]
         /\ Len(heap'[transactions].rows) = Len(heap[transactions].rows))

\* the clean transactions file holds the table in memory
CleanFileCurrent ==
    pc \in {"save_raw", "done"} =>
        files[FileName(clean_dir, "transactions.csv")].text = to_csv(heap[transactions])

\* C4: the injector never mutates its input: across the call the input frame
\* keeps its rows, its cells and its row count, so the clean transactions
\* file generate_all wrote equals the table in memory once the raw variant exists
C4_InputKept == [][InputKeptStep]_vars /\ []CleanFileCurrent

\* the injector blanked cells of its copy at missing rate 1 and the input
\* still holds every value
C4_Witness ==
    /\ pc = "returned"
    /\ missing_rate = 100
    /\ \E i \in 1..Len(heap[transactions].rows) :
       \E col \in DOMAIN heap[transactions].rows[i] :
          /\ ~IsNa(heap[transactions].rows[i][col])
          /\ IsNa(heap[transactions_raw].rows[i][col])

\* C5: in the table the injector returns every row, the appended duplicates
\* included, holds in transaction_id, customer_id and product_id the non-missing
\* value of its source row, and every other cell is missing or equal to the
\* input cell, for every missing rate
C5_Identifiers ==
    pc = "returned" =>
        LET in  == heap[transactions].rows
            out == heap[transactions_raw].rows
        IN  \A j \in 1..Len(out) :
            \E i \in 1..Len(in) :
                /\ j <= Len(in) => i = j
                /\ DOMAIN out[j] = DOMAIN in[i]
                /\ \A col \in DOMAIN in[i] :
                      IF col \in IdCols
                      THEN out[j][col] = in[i][col] /\ ~IsNa(out[j][col])
                      ELSE out[j][col] = in[i][col] \/ IsNa(out[j][col])

\* at missing rate 1 a table with an identifier column came back with that
\* column intact and another column blanked, in an appended duplicate too
C5_Witness ==
    /\ pc = "returned"
    /\ missing_rate = 100
    /\ Len(heap[transactions_raw].rows) > Len(heap[transactions].rows)
    /\ LET x == heap[transactions_raw].rows[Len(heap[transactions_raw].rows)]
       IN  /\ ~IsNa(x.customer_id)
           /\ IsNa(x.segment)

-----------------------------------------------------------------------------
(* generate_transactions *)

\* C6: for T >= 1 and non-empty tables generate_transactions returns exactly
\* T records carrying the distinct tokens TXN_000000 .. TXN_{T-1} in order,
\* each with a customer_id of the customer table and a product_id of the
\* product table
C6_Transactions ==
    (pc = "returned" /\ n_transactions >= 1) =>
        LET rows == heap[transactions].rows
        IN  /\ Len(rows) = n_transactions
            /\ Distinct(rows, "transaction_id")
            /\ \A i \in 1..Len(rows) :
                /\ IsToken(Val(rows[i].transaction_id), "TXN_", i - 1, 6)
                /\ \E k \in 1..Len(heap[customers].rows) :
                      rows[i].customer_id = heap[customers].rows[k].customer_id
                /\ \E k \in 1..Len(heap[products].rows) :
                      rows[i].product_id = heap[products].rows[k].product_id

\* two transactions were returned over two customers, one for each
C6_Witness ==
    /\ pc = "returned"
    /\ n_transactions = 2
    /\ Len(heap[customers].rows) = 2
    /\ heap[transactions].rows[1].customer_id # heap[transactions].rows[2].customer_id

\* the price, quantity and discount of a record are those the generator draws:
\* the price of the product the record names, 1 to 5 units, no discount or one
\* of 5 to 30 percent
DrawnFields(x) ==
    /\ \E k \in 1..Len(heap[products].rows) :
          heap[products].rows[k].product_id = x.product_id
    /\ \A k \in 1..Len(heap[products].rows) :
          heap[products].rows[k].product_id = x.product_id =>
              x.unit_price = heap[products].rows[k].price
    /\ Val(x.quantity) \in 1..5
    /\ Val(x.discount_pct) = 0 \/ Val(x.discount_pct) \in 5..30

\* unit_price * quantity * (1 - discount_pct), in hundredths of a cent
ExactTotal(x) == Val(x.unit_price) * Val(x.quantity) * (100 - Val(x.discount_pct))

\* round(v, 2) of the decimal value v given in hundredths of a cent, a half
\* cent going to the even cent
RoundHalfEven(v) ==
    IF v % 100 < 50 THEN v \div 100
    ELSE IF v % 100 > 50 THEN v \div 100 + 1
    ELSE IF (v \div 100) % 2 = 0 THEN v \div 100
    ELSE v \div 100 + 1

\* C7 as stated: every record has the price of its product, a quantity of
\* 1..5, a discount of 0 or within 0.05..0.3, and a total_amount equal to
\* round(unit_price * quantity * (1 - discount_pct), 2)
C7_Original ==
    pc = "returned" =>
        \A i \in 1..Len(heap[transactions].rows) :
            LET x == heap[transactions].rows[i]
            IN  /\ DrawnFields(x)
                /\ Val(x.total_amount) = RoundHalfEven(ExactTotal(x))

\* C7 amended: every record has the price of its product, a quantity of 1..5,
\* a discount of 0 or within 0.05..0.3, and a total_amount within half a cent
\* of unit_price * quantity * (1 - discount_pct): the rounded value when that
\* product is no exact half cent, one of the two neighbouring cents when it is
C7_NearestCent ==
    pc = "returned" =>
        \A i \in 1..Len(heap[transactions].rows) :
            LET x == heap[transactions].rows[i]
                v == ExactTotal(x)
            IN  /\ DrawnFields(x)
                /\ Val(x.total_amount) * 100 - v <= 50
                /\ v - Val(x.total_amount) * 100 <= 50
                /\ v % 100 # 50 => Val(x.total_amount) = RoundHalfEven(v)

\* a discounted record of several units was returned whose exact total is a
\* half cent and whose total_amount is the odd neighbouring cent, and another
\* whose exact total is neither whole cents nor a half cent
C7_Witness ==
    /\ pc = "returned"
    /\ \E i, j \in 1..Len(heap[transactions].rows) :
          LET x == heap[transactions].rows[i]
              y == heap[transactions].rows[j]
          IN  /\ Val(x.discount_pct) > 0
              /\ Val(x.quantity) > 1
              /\ ExactTotal(x) % 100 = 50
              /\ Val(x.total_amount) # RoundHalfEven(ExactTotal(x))
              /\ ExactTotal(y) % 100 \notin {0, 50}

-----------------------------------------------------------------------------
(* generate_all *)

RawFile(name) == files[FileName(output_dir, name)]

CleanFile(name) == files[FileName(clean_dir, name)]

\* the object was returned by the injector called on the frame src
Injected(ref, src) ==
    /\ ref # src
    /\ made[ref] = [by |-> "add_data_quality_issues", arg |-> src]

\* C2 as stated: the three files of the raw directory each hold the output of
\* the injector applied to the clean table of that name, not the clean table
C2_Original ==
    pc = "done" =>
        /\ Injected(RawFile("customers_raw.csv").from, customers)
        /\ Injected(RawFile("products_raw.csv").from, products)
        /\ Injected(RawFile("transactions_raw.csv").from, transactions)

\* C2 amended: only the transactions are passed through the injector:
\* transactions_raw.csv holds the output of the injector applied to the clean
\* transactions, customers_raw.csv and products_raw.csv hold the clean tables
C2_RawSet ==
    pc = "done" =>
        /\ Injected(RawFile("transactions_raw.csv").from, transactions)
        /\ RawFile("transactions_raw.csv").text = to_csv(heap[transactions_raw])
        /\ RawFile("customers_raw.csv").from = customers
        /\ RawFile("customers_raw.csv").text = CleanFile("customers.csv").text
        /\ RawFile("products_raw.csv").from = products
        /\ RawFile("products_raw.csv").text = CleanFile("products.csv").text

\* a run ended in which the raw transactions differ from the clean ones and
\* the raw customers and products are the one clean customer and product
C2_Witness ==
    /\ pc = "done"
    /\ RawFile("transactions_raw.csv").text # CleanFile("transactions.csv").text
    /\ Len(RawFile("customers_raw.csv").text.lines) = 1
    /\ Len(RawFile("products_raw.csv").text.lines) = 1

\* C3: when one of the three counts is <= 0 the run is rejected at entry: no
\* directory is created and no file is written
C3_Rejected ==
    (n_customers <= 0 \/ n_products <= 0 \/ n_transactions <= 0) =>
        /\ dirs = {}
        /\ DOMAIN files = {}

====
